---- MODULE Spec2Model ----
(***************************************************************************)
(* Model of camera_select.py: Lens, Sensor and Camera (mount, unmount,     *)
(* focus, project, resolution_on_ground_per_10cm).                         *)
(*                                                                         *)
(* Numbers.  The program computes in IEEE doubles.  The model computes in  *)
(* exact rational arithmetic (arbitrary-precision numerator and            *)
(* denominator), so every formula below is the source's formula evaluated  *)
(* without rounding.  Division by zero is the one arithmetic event Python  *)
(* turns into an exception (ZeroDivisionError for float / float), and the  *)
(* model raises it at the same statement; numpy's division in project      *)
(* does not raise and yields nan.                                          *)
(*                                                                         *)
(* Angles.  An angle is represented by the direction <<x, y>> of the ray   *)
(* it describes (angle = atan2(y, x), in (-pi, pi)), so that math.tan,     *)
(* math.atan, math.sin, math.cos and the sum of two angles are exact:      *)
(* tan = y / x, atan(n / d) = <<d, n>>, and the sum is the complex         *)
(* product.  Pitch arguments are the angles whose sine and cosine are      *)
(* rational (Pythagorean triples <<a, b, n>>, cos = a/n, sin = b/n).       *)
(***************************************************************************)
EXTENDS Integers, Sequences, FiniteSets, TLC

(***************************************************************************)
(* Arbitrary-precision naturals: little-endian sequences of limbs in base  *)
(* Base, without leading zero limbs (zero is the empty sequence).          *)
(***************************************************************************)
Base == 100 * 100

RECURSIVE NOfInt(_)
NOfInt(i) == IF i = 0 THEN <<>> ELSE <<i % Base>> \o NOfInt(i \div Base)

RECURSIVE NStrip(_)
NStrip(a) ==
  IF a = <<>> THEN a
  ELSE IF a[Len(a)] = 0 THEN NStrip(SubSeq(a, 1, Len(a) - 1)) ELSE a

RECURSIVE NCmpFrom(_, _, _)
NCmpFrom(a, b, i) ==
  IF i = 0 THEN 0
  ELSE IF a[i] < b[i] THEN -1
  ELSE IF a[i] > b[i] THEN 1
  ELSE NCmpFrom(a, b, i - 1)

NCmp(a, b) ==
  IF Len(a) < Len(b) THEN -1
  ELSE IF Len(a) > Len(b) THEN 1
  ELSE NCmpFrom(a, b, Len(a))

RECURSIVE NAddC(_, _, _)
NAddC(a, b, c) ==
  IF a = <<>> /\ b = <<>> THEN (IF c = 0 THEN <<>> ELSE <<c>>)
  ELSE LET x == IF a = <<>> THEN 0 ELSE Head(a)
           y == IF b = <<>> THEN 0 ELSE Head(b)
           s == x + y + c
       IN  <<s % Base>> \o NAddC(IF a = <<>> THEN a ELSE Tail(a),
                                 IF b = <<>> THEN b ELSE Tail(b), s \div Base)

NAdd(a, b) == NAddC(a, b, 0)

\* a - b for a >= b
RECURSIVE NSubC(_, _, _)
NSubC(a, b, c) ==
  IF a = <<>> THEN <<>>
  ELSE LET y == IF b = <<>> THEN 0 ELSE Head(b)
           s == Head(a) - y - c
       IN  <<IF s < 0 THEN s + Base ELSE s>>
             \o NSubC(Tail(a), IF b = <<>> THEN b ELSE Tail(b), IF s < 0 THEN 1 ELSE 0)

NSub(a, b) == NStrip(NSubC(a, b, 0))

RECURSIVE NMulS(_, _, _)
NMulS(a, k, c) ==
  IF a = <<>> THEN (IF c = 0 THEN <<>> ELSE <<c>>)
  ELSE LET s == Head(a) * k + c
       IN  <<s % Base>> \o NMulS(Tail(a), k, s \div Base)

\* a * Base^k
NShift(a, k) == IF a = <<>> THEN a ELSE [i \in 1..k |-> 0] \o a

\* a * b, splitting a into its low and high halves
RECURSIVE NMul(_, _)
NMul(a, b) ==
  IF a = <<>> \/ b = <<>> THEN <<>>
  ELSE IF Len(a) = 1 THEN NMulS(b, a[1], 0)
  ELSE NAdd(NMul(SubSeq(a, 1, Len(a) \div 2), b),
            NShift(NMul(SubSeq(a, Len(a) \div 2 + 1, Len(a)), b), Len(a) \div 2))

(***************************************************************************)
(* Signed integers <<sign, magnitude>> and rationals <<numerator,          *)
(* denominator>> (denominator a positive natural).  Rationals are not      *)
(* reduced: two rationals are compared with REq / RLess, never with =.     *)
(***************************************************************************)
ZOfInt(i) == IF i = 0 THEN <<0, <<>>>>
             ELSE IF i < 0 THEN <<-1, NOfInt(-i)>> ELSE <<1, NOfInt(i)>>

ZNeg(a) == <<-a[1], a[2]>>

\* a + b for a and b of opposite signs, c comparing their magnitudes
ZDiff(a, b, c) ==
  IF c = 0 THEN <<0, <<>>>>
  ELSE IF c > 0 THEN <<a[1], NSub(a[2], b[2])>>
  ELSE <<b[1], NSub(b[2], a[2])>>

ZAdd(a, b) ==
  IF a[1] = 0 THEN b
  ELSE IF b[1] = 0 THEN a
  ELSE IF a[1] = b[1] THEN <<a[1], NAdd(a[2], b[2])>>
  ELSE ZDiff(a, b, NCmp(a[2], b[2]))

ZMul(a, b) == IF a[1] = 0 \/ b[1] = 0 THEN <<0, <<>>>>
              ELSE <<a[1] * b[1], NMul(a[2], b[2])>>

RInt(i) == <<ZOfInt(i), <<1>>>>
RFrac(n, d) == <<ZOfInt(n), NOfInt(d)>>

RSign(r) == r[1][1]
RIsZero(r) == r[1][1] = 0
RNeg(r) == <<ZNeg(r[1]), r[2]>>
RAdd(r, s) ==
  IF r[1][1] = 0 THEN s
  ELSE IF s[1][1] = 0 THEN r
  ELSE IF r[2] = s[2] THEN <<ZAdd(r[1], s[1]), r[2]>>
  ELSE <<ZAdd(ZMul(r[1], <<1, s[2]>>), ZMul(s[1], <<1, r[2]>>)), NMul(r[2], s[2])>>
RSub(r, s) == RAdd(r, RNeg(s))
RMul(r, s) == IF r[1][1] = 0 \/ s[1][1] = 0 THEN <<<<0, <<>>>>, <<1>>>>
              ELSE <<ZMul(r[1], s[1]), NMul(r[2], s[2])>>
\* r / s for s # 0
RDiv(r, s) == IF r[1][1] = 0 THEN <<<<0, <<>>>>, <<1>>>>
              ELSE <<ZMul(r[1], <<s[1][1], s[2]>>), NMul(r[2], s[1][2])>>
RCmp(r, s) == RSign(RSub(r, s))
REq(r, s) == RCmp(r, s) = 0
RLess(r, s) == RCmp(r, s) < 0
RLeq(r, s) == RCmp(r, s) <= 0

NToInt(a) == IF a = <<>> THEN 0
             ELSE IF Len(a) = 1 THEN a[1]
             ELSE a[1] + Base * a[2]

\* math.sqrt on a natural that is a perfect square (bisection on [lo, hi])
RECURSIVE ISqrtIn(_, _, _)
ISqrtIn(n, lo, hi) ==
  IF lo >= hi THEN lo
  ELSE LET mid == (lo + hi + 1) \div 2
       IN  IF mid * mid <= n THEN ISqrtIn(n, mid, hi) ELSE ISqrtIn(n, lo, mid - 1)

ISqrt(n) == ISqrtIn(n, 0, IF n < 40000 THEN n ELSE 40000)

\* math.sqrt of a rational whose numerator and denominator are squares
RSqrt(r) == RFrac(ISqrt(NToInt(r[1][2])), ISqrt(NToInt(r[2])))

(***************************************************************************)
(* Angles as directions <<x, y>> (signed integers).                        *)
(***************************************************************************)
\* math.atan(r): the angle in (-pi/2, pi/2) whose tangent is r
Atan(r) == <<<<1, r[2]>>, r[1]>>

AngleAdd(u, v) == <<ZAdd(ZMul(u[1], v[1]), ZNeg(ZMul(u[2], v[2]))),
                    ZAdd(ZMul(u[1], v[2]), ZMul(u[2], v[1]))>>
AngleNeg(u) == <<u[1], ZNeg(u[2])>>
AngleSub(u, v) == AngleAdd(u, AngleNeg(v))

\* math.tan(angle) for a direction that is not vertical
Tan(u) == <<IF u[1][1] < 0 THEN ZNeg(u[2]) ELSE u[2], u[1][2]>>

\* tan(0.001) = 0.001000000333333467..., here 0.001 / (1 - 0.001^2 / 3)
TanEpsilon == RFrac(3000, 2999999)

\* angle < -0.001 (radians), for an angle in (-pi, pi)
BelowEpsilon(u) ==
  /\ u[2][1] < 0
  /\ \/ u[1][1] <= 0
     \/ RLess(TanEpsilon, Tan(AngleNeg(u)))

(***************************************************************************)
(* Pitch arguments: Pythagorean triples <<a, b, n>> with a > 0, the angle   *)
(* whose cosine is a/n and sine b/n, tagged with the unit of its measure.  *)
(***************************************************************************)
Degrees(a, b, n) == [unit |-> "deg", a |-> a, b |-> b, n |-> n]

\* pitch / 180 * math.pi: the same angle, measured in radians
Radians(p) == [p EXCEPT !.unit = "rad"]

Cos(p) == RFrac(p.a, p.n)
Sin(p) == RFrac(p.b, p.n)
Dir(p) == <<ZOfInt(p.a), ZOfInt(p.b)>>

(***************************************************************************)
(* Matrices of rationals, as sequences of rows.                            *)
(***************************************************************************)
RECURSIVE DotTo(_, _, _, _, _)
DotTo(A, i, Bm, j, k) ==
  IF k = 0 THEN RInt(0)
  ELSE RAdd(DotTo(A, i, Bm, j, k - 1), RMul(A[i][k], Bm[k][j]))

Dot(A, i, Bm, j) == DotTo(A, i, Bm, j, Len(Bm))

\* A @ B
MatMul(A, Bm) == [i \in 1..Len(A) |-> [j \in 1..Len(Bm[1]) |-> Dot(A, i, Bm, j)]]

(***************************************************************************)
(* Lens and Sensor                                                         *)
(***************************************************************************)
Lens(focal_mm, f_number) == [focal_mm |-> focal_mm, f_number |-> f_number]

Sensor(width_mm, height_mm, width_px, height_px) ==
  [width_mm |-> width_mm, height_mm |-> height_mm,
   width_px |-> width_px, height_px |-> height_px,
   ratio_focal_x |-> RDiv(width_px, width_mm),
   ratio_focal_y |-> RDiv(height_px, height_mm)]

diagonal_mm(sensor) ==
  RSqrt(RAdd(RMul(sensor.width_mm, sensor.width_mm),
             RMul(sensor.height_mm, sensor.height_mm)))

(***************************************************************************)
(* Camera                                                                  *)
(***************************************************************************)
Sentinel == 1000000

equivalent_focal_mm(c) ==
  RMul(RDiv(c.lens.focal_mm, diagonal_mm(c.sensor)), RFrac(4327, 100))

circle_of_confusion(c) ==
  LET mult == RDiv(equivalent_focal_mm(c), c.lens.focal_mm)
  IN  RDiv(RFrac(30, 1000), mult)

Return(c) == [cam |-> c, err |-> "ok"]
Raise(c, e) == [cam |-> c, err |-> e]

\* the hyperfocal distance Camera.focus computes first
hyperfocal_of(c) ==
  RAdd(RDiv(RDiv(RMul(c.lens.focal_mm, c.lens.focal_mm), c.lens.f_number),
            circle_of_confusion(c)), c.lens.focal_mm)

\* Camera.focus, statement by statement, last statement first.  Each step
\* takes the camera as the statements before it left it and the locals
\* they computed, and yields the camera after the call and how the call
\* ended.  A ZeroDivisionError leaves the assignments made before it in
\* place.

\* the assignments of the angles of view, object_distance, hyperfocal,
\* extension and K
focus_assign(c, object_distance, hyperfocal, extension, image_distance_mm) ==
  IF RIsZero(image_distance_mm) THEN Raise(c, "ZeroDivisionError")
  ELSE Return([c EXCEPT
         !.horizontal_half_aov =
             Atan(RDiv(RDiv(c.sensor.width_mm, RInt(2)), image_distance_mm)),
         !.vertical_half_aov =
             Atan(RDiv(RDiv(c.sensor.height_mm, RInt(2)), image_distance_mm)),
         !.object_distance = object_distance,
         !.hyperfocal = hyperfocal,
         !.extension = extension,
         !.K = << <<RMul(image_distance_mm, c.sensor.ratio_focal_x), RInt(0),
                    RDiv(c.sensor.width_px, RInt(2))>>,
                  <<RInt(0), RMul(image_distance_mm, c.sensor.ratio_focal_y),
                    RDiv(c.sensor.height_px, RInt(2))>> >>])

\* image_distance_mm = focal_mm + extension
focus_image_distance(c, object_distance, hyperfocal, extension) ==
  focus_assign(c, object_distance, hyperfocal, extension,
               RAdd(c.lens.focal_mm, extension))

\* extension = focal_mm ** 2 / (object_distance - focal_mm)
focus_extension(c, object_distance, hyperfocal, ext_den) ==
  IF RIsZero(ext_den) THEN Raise(c, "ZeroDivisionError")
  ELSE focus_image_distance(c, object_distance, hyperfocal,
                            RDiv(RMul(c.lens.focal_mm, c.lens.focal_mm), ext_den))

\* if self.far_depth < 0: self.far_depth = 1e6
far_depth_clamped(far) == IF RSign(far) < 0 THEN RInt(Sentinel) ELSE far

\* self.far_depth = ... / (hyperfocal - object_distance), then the clamp
focus_far_depth(c, object_distance, hyperfocal, far_den) ==
  IF RIsZero(far_den) THEN Raise(c, "ZeroDivisionError")
  ELSE focus_extension(
         [c EXCEPT !.far_depth =
            far_depth_clamped(
              RDiv(RMul(object_distance, RSub(hyperfocal, c.lens.focal_mm)), far_den))],
         object_distance, hyperfocal, RSub(object_distance, c.lens.focal_mm))

\* self.near_depth = ... / (hyperfocal + object_distance - 2 * focal_mm)
focus_near_depth(c, object_distance, hyperfocal, near_den) ==
  IF RIsZero(near_den) THEN Raise(c, "ZeroDivisionError")
  ELSE focus_far_depth(
         [c EXCEPT !.near_depth =
            RDiv(RMul(object_distance, RSub(hyperfocal, c.lens.focal_mm)), near_den)],
         object_distance, hyperfocal, RSub(hyperfocal, object_distance))

\* the statements of focus after hyperfocal is computed
focus_from(c, object_distance, hyperfocal) ==
  focus_near_depth(c, object_distance, hyperfocal,
                   RSub(RAdd(hyperfocal, object_distance),
                        RMul(RInt(2), c.lens.focal_mm)))

\* Camera.focus
focus(c, object_distance) == focus_from(c, object_distance, hyperfocal_of(c))

\* ground_distance_at multiplying by the tangent instead of dividing
ground_distance_times_tan(height_mm, angle) ==
  IF BelowEpsilon(angle) THEN RMul(height_mm, Tan(AngleNeg(angle)))
  ELSE RInt(Sentinel)

\* ground_distance_at of Camera.mount, for the mount height height_mm
ground_distance_at(height_mm, angle) ==
  IF BelowEpsilon(angle) THEN RDiv(height_mm, Tan(AngleNeg(angle)))
  ELSE RInt(Sentinel)

\* the translate matrix of Camera.mount
translate(height_mm) == << <<RInt(1), RInt(0), RInt(0), RInt(0)>>,
                           <<RInt(0), RInt(1), RInt(0), height_mm>>,
                           <<RInt(0), RInt(0), RInt(1), RInt(0)>>,
                           <<RInt(0), RInt(0), RInt(0), RInt(1)>> >>

\* rotate with the signs of the two sines exchanged
rotate_transposed(pitch) == << <<RInt(1), RInt(0), RInt(0), RInt(0)>>,
                               <<RInt(0), Cos(pitch), RNeg(Sin(pitch)), RInt(0)>>,
                               <<RInt(0), Sin(pitch), Cos(pitch), RInt(0)>> >>

\* the rotate matrix of Camera.mount
rotate(pitch) == << <<RInt(1), RInt(0), RInt(0), RInt(0)>>,
                    <<RInt(0), Cos(pitch), Sin(pitch), RInt(0)>>,
                    <<RInt(0), RNeg(Sin(pitch)), Cos(pitch), RInt(0)>> >>

\* the last two assignments of Camera.mount, once focus has ended: a focus
\* that raised ends the mount with pose, pitch, center_view_distance and
\* whatever focus assigned already in place
mount_view_limits(focused, pitch, height_mm) ==
  IF focused.err # "ok" THEN focused
  ELSE Return([focused.cam EXCEPT
         !.near_view_limit =
             ground_distance_at(height_mm,
                                AngleSub(Dir(pitch), focused.cam.vertical_half_aov)),
         !.far_view_limit =
             ground_distance_at(height_mm,
                                AngleAdd(Dir(pitch), focused.cam.vertical_half_aov))])

\* self.pose, self.pitch and self.center_view_distance of Camera.mount
mount_pose(c, pitch, height_mm) ==
  [c EXCEPT !.pose = MatMul(rotate(pitch), translate(height_mm)),
            !.pitch = pitch,
            !.center_view_distance = ground_distance_at(height_mm, Dir(pitch))]

\* self.focus(self.center_view_distance)
focus_center_view(c) == focus(c, c.center_view_distance)

\* mount focusing at the sentinel, as the constructor does, instead of at
\* the centre of view
mount_focus_at_sentinel(c, pitch_degrees, height_mm) ==
  mount_view_limits(focus(mount_pose(c, Radians(pitch_degrees), height_mm),
                          RInt(Sentinel)),
                    Radians(pitch_degrees), height_mm)

\* Camera.mount: pose, pitch and center_view_distance are assigned before
\* focus is called, the view limits after it has returned.
mount(c, pitch_degrees, height_mm) ==
  mount_view_limits(focus_center_view(mount_pose(c, Radians(pitch_degrees), height_mm)),
                    Radians(pitch_degrees), height_mm)

\* unmount levelling the pitch at the demo's mount height
unmount_keeps_height(c) == mount(c, Degrees(1, 0, 1), RInt(1500))

\* Camera.unmount
unmount(c) == mount(c, Degrees(1, 0, 1), RInt(0))

\* Camera.__init__: the fields exist once mount and focus have assigned them
Unset == "unset"

\* self.focus(1e6) of Camera.__init__, once unmount has ended
focus_at_sentinel(unmounted) ==
  IF unmounted.err # "ok" THEN unmounted
  ELSE focus(unmounted.cam, RInt(Sentinel))

Camera(name, sensor, lens) ==
  focus_at_sentinel(
    unmount([name |-> name, sensor |-> sensor, lens |-> lens,
             pose |-> Unset, pitch |-> Unset, center_view_distance |-> Unset,
             near_depth |-> Unset, far_depth |-> Unset,
             horizontal_half_aov |-> Unset, vertical_half_aov |-> Unset,
             object_distance |-> Unset, hyperfocal |-> Unset, extension |-> Unset,
             K |-> Unset, near_view_limit |-> Unset, far_view_limit |-> Unset]))

\* nan, in the shape of a rational: 0/0
NaN == <<<<0, <<>>>>, <<>>>>
IsNaN(r) == r[2] = <<>>

\* Camera.project: the assert rejects anything but a 4x1 array; numpy
\* divides by a zero depth without raising, and every entry of the result
\* is then nan (0/0 in the third coordinate).
project_image(c, point_camera) ==
  IF RIsZero(point_camera[3][1]) THEN [err |-> "ok", ret |-> << <<NaN>>, <<NaN>> >>]
  ELSE [err |-> "ok",
        ret |-> MatMul(c.K, [i \in 1..3 |->
                               <<RDiv(point_camera[i][1], point_camera[3][1])>>])]

project(c, point_world) ==
  IF Len(point_world) # 4 THEN [err |-> "AssertionError", ret |-> <<>>]
  ELSE project_image(c, MatMul(c.pose, point_world))

Point(x, y, z, w) == << <<x>>, <<y>>, <<z>>, <<w>> >>

\* Camera.resolution_on_ground_per_10cm
\* y - y2, nan when either is
delta_y(y, y2) == IF IsNaN(y) \/ IsNaN(y2) THEN NaN ELSE RSub(y, y2)

resolution_on_ground_per_10cm(c, ground_distance) ==
  delta_y(project(c, Point(RInt(0), RInt(0), ground_distance, RInt(1))).ret[2][1],
          project(c, Point(RInt(0), RInt(0),
                           RAdd(ground_distance, RInt(100)), RInt(1))).ret[2][1])

(***************************************************************************)
(* The state: one Camera object and the record of the last call on it.     *)
(***************************************************************************)
VARIABLES cam, last

vars == <<cam, last>>

Call(op, arg, err, ret) == [op |-> op, arg |-> arg, err |-> err, ret |-> ret]

\* bounds of the input sets
MaxHeightSteps == 1
MaxSweep == 3

\* cameras: the lenses of the source's demo and of the spec's example, on
\* sensors whose diagonal is rational
Cam6 == <<"cam6", Sensor(RInt(8), RInt(6), RInt(1920), RInt(1440)),
          Lens(RInt(6), RFrac(14, 10))>>
Cam25 == <<"cam25", Sensor(RFrac(48, 10), RFrac(36, 10), RInt(1920), RInt(1440)),
           Lens(RInt(25), RFrac(18, 10))>>

Level == Degrees(1, 0, 1)
\* upward; inside (-0.001, 0) rad; just below -0.001 rad; -53.1 and -73.7 deg
Pitches == { Level, Degrees(4, 3, 5),
             Degrees(15999999, -8000, 16000001), Degrees(249999, -1000, 250001),
             Degrees(3, -4, 5), Degrees(7, -24, 25) }

Heights == {RInt(0), RInt(8)} \cup {RInt(5000 * k) : k \in 1..MaxHeightSteps}

\* focus distances: inside the focal length, the focal length, the
\* hyperfocal distance, ordinary distances, the sentinel
Distances(c) == { RInt(1), c.lens.focal_mm, hyperfocal_of(c),
                  RInt(2000), RInt(Sentinel) }

Init ==
  /\ cam = Camera(Cam6[1], Cam6[2], Cam6[3]).cam
  /\ last = Call("__init__", <<>>, "ok", <<>>)

\* a call of a method that mutates the camera has ended as r says
Ended(op, arg, r) ==
  /\ cam' = r.cam
  /\ last' = Call(op, arg, r.err, <<>>)

\* a call of a method that only reads the camera has ended as r says
Answered(op, arg, r) ==
  /\ last' = Call(op, arg, r.err, r.ret)
  /\ UNCHANGED cam

Mount(pitch, height_mm) ==
  Ended("mount", <<pitch, height_mm>>, mount(cam, pitch, height_mm))

Unmount == Ended("unmount", <<>>, unmount(cam))

Focus(object_distance) ==
  Ended("focus", <<object_distance>>, focus(cam, object_distance))

Project(point_world) ==
  Answered("project", <<point_world>>, project(cam, point_world))

Resolution(ground_distance) ==
  /\ last' = Call("resolution", <<ground_distance>>, "ok",
                  <<resolution_on_ground_per_10cm(cam, ground_distance)>>)
  /\ UNCHANGED cam

Next ==
  \/ \E p \in Pitches, h \in Heights : Mount(p, h)
  \/ Unmount
  \/ \E d \in Distances(cam) : Focus(d)

Spec == Init /\ [][Next]_vars


(***************************************************************************)
(* The second specification adds the read-only calls, on two cameras and    *)
(* with fewer poses.                                                       *)
(***************************************************************************)
ViewPitches == { Level, Degrees(249999, -1000, 250001), Degrees(3, -4, 5) }

ViewHeights == {RInt(8)} \cup {RInt(5000 * k) : k \in 1..MaxHeightSteps}

ViewDistances == { RInt(1), RInt(2000) }

\* world points: the ground point on the optical axis, the origin, a point
\* with homogeneous coordinate 2, an off-axis point, a 3x1 array
Points(c) == { Point(RInt(0), RInt(0), c.center_view_distance, RInt(1)),
               Point(RInt(0), RInt(0), RInt(0), RInt(1)),
               Point(RInt(0), RInt(0), RInt(2000), RInt(2)),
               Point(RInt(100), RInt(50), RInt(3000), RInt(1)),
               << <<RInt(0)>>, <<RInt(0)>>, <<RInt(2000)>> >> }

\* the sweep of Camera.report, thinned
Sweep == {RInt(1000 * k) : k \in 1..MaxSweep}

InitView ==
  /\ cam \in {Camera(a[1], a[2], a[3]).cam : a \in {Cam6, Cam25}}
  /\ last = Call("__init__", <<>>, "ok", <<>>)

NextView ==
  \/ \E p \in ViewPitches, h \in ViewHeights : Mount(p, h)
  \/ Unmount
  \/ \E d \in ViewDistances : Focus(d)
  \/ \E pt \in Points(cam) : Project(pt)
  \/ \E g \in Sweep : Resolution(g)

SpecView == InitView /\ [][NextView]_vars

(***************************************************************************)
(* Readings of the camera used by the properties.                          *)
(***************************************************************************)
\* the mount height held by the pose (its translation column is
\* cos * height, -sin * height)
HeightOf(c) == RDiv(c.pose[2][4], c.pose[2][2])

\* pitch below the -0.001 rad threshold
Downward(c) == BelowEpsilon(Dir(c.pitch))

\* p2 points more steeply downward than p1
Steeper(p2, p1) == RLess(RFrac(p2.b, p2.a), RFrac(p1.b, p1.a))

image_distance_of(c) == RAdd(c.lens.focal_mm, c.extension)

(***************************************************************************)
(* C1.  After every mount(pitch_degrees, height_mm) that returns, whatever *)
(* calls preceded it, the fields are mutually consistent: pitch is the     *)
(* argument in radians, the pose is the one of that pitch and height,      *)
(* center_view_distance is the ground distance for them, the camera is     *)
(* focused there (object_distance and every quantity focus derives are     *)
(* those of that distance), and the view limits are the ground distances   *)
(* at pitch -/+ the vertical_half_aov of that focus.                       *)
(***************************************************************************)
C1_MountConsistent ==
  (last.op = "mount" /\ last.err = "ok") =>
    LET pitch_degrees == last.arg[1]
        height_mm == last.arg[2]
        pitch == Radians(pitch_degrees)
    IN  /\ cam.pitch = pitch
        /\ cam.pose = MatMul(rotate(pitch), translate(height_mm))
        /\ REq(cam.center_view_distance, ground_distance_at(height_mm, Dir(pitch)))
        /\ REq(cam.object_distance, cam.center_view_distance)
        /\ focus_center_view(cam) = Return(cam)
        /\ REq(cam.near_view_limit,
               ground_distance_at(height_mm, AngleSub(Dir(pitch), cam.vertical_half_aov)))
        /\ REq(cam.far_view_limit,
               ground_distance_at(height_mm, AngleAdd(Dir(pitch), cam.vertical_half_aov)))

\* a mount at a downward pitch and positive height has returned
C1_Witness ==
  /\ last.op = "mount"
  /\ last.err = "ok"
  /\ Downward(cam)
  /\ RSign(last.arg[2]) > 0

(***************************************************************************)
(* C2.  A focus or mount call that fails leaves every field of the Camera  *)
(* as it was before the call.                                              *)
(***************************************************************************)
C2_FailedCallChangesNothing ==
  [][(last'.op \in {"focus", "mount", "unmount"} /\ last'.err # "ok") => cam' = cam]_vars

(***************************************************************************)
(* C3.  A focus at an object distance <= the focal length, called directly *)
(* or by mount at the centre-of-view distance, is rejected with            *)
(* InvalidFocusDistance, and never completes with an image distance        *)
(* (focal + extension) <= 0.                                               *)
(***************************************************************************)
C3_FocusInsideFocalRejected ==
  LET attempted == IF last.op = "focus" THEN last.arg[1] ELSE cam.center_view_distance
  IN  (last.op \in {"focus", "mount"} /\ RLeq(attempted, cam.lens.focal_mm)) =>
        /\ last.err = "InvalidFocusDistance"
        /\ RSign(image_distance_of(cam)) > 0

(***************************************************************************)
(* C4.  After unmount(), and right after construction, pitch is 0, the     *)
(* mount height is 0 and far_view_limit is the sentinel 1,000,000 mm;      *)
(* near_view_limit is 0 (amended: the claim says the sentinel): the lower  *)
(* edge of the view, vertical_half_aov > 0.001 rad below level, meets the  *)
(* ground at distance 0 / tan(vertical_half_aov).                          *)
(***************************************************************************)
C4_UnmountedPose ==
  (last.op \in {"unmount", "__init__"}) =>
    /\ last.err = "ok"
    /\ cam.pitch = Radians(Level)
    /\ RIsZero(HeightOf(cam))
    /\ REq(cam.far_view_limit, RInt(Sentinel))
    /\ RIsZero(cam.near_view_limit)

\* C4 as claimed: both view limits are the sentinel
C4_AsClaimed ==
  (last.op \in {"unmount", "__init__"}) =>
    /\ cam.pitch = Radians(Level)
    /\ RIsZero(HeightOf(cam))
    /\ REq(cam.far_view_limit, RInt(Sentinel))
    /\ REq(cam.near_view_limit, RInt(Sentinel))

\* unmount has returned
C4_Witness ==
  /\ last.op = "unmount"
  /\ last.err = "ok"
  /\ BelowEpsilon(AngleNeg(cam.vertical_half_aov))

(***************************************************************************)
(* C5.  project fails with DegenerateProjection whenever the depth of the  *)
(* point after the pose transform is zero or its homogeneous coordinate is *)
(* not 1.                                                                  *)
(***************************************************************************)
C5_DegenerateRejected ==
  (last.op = "project" /\ Len(last.arg[1]) = 4) =>
    LET point_world == last.arg[1]
        depth == MatMul(cam.pose, point_world)[3][1]
    IN  (RIsZero(depth) \/ ~REq(point_world[4][1], RInt(1))) =>
          last.err = "DegenerateProjection"

(***************************************************************************)
(* C6.  After every focus(d) that returns, object_distance is d and, when  *)
(* hyperfocal > focal length, near_depth <= object_distance and            *)
(* (object_distance <= far_depth or far_depth is the sentinel).            *)
(***************************************************************************)
C6_DepthOfFieldBrackets ==
  (last.op = "focus" /\ last.err = "ok") =>
    /\ REq(cam.object_distance, last.arg[1])
    /\ RLess(cam.lens.focal_mm, cam.hyperfocal) =>
         /\ RLeq(cam.near_depth, cam.object_distance)
         /\ \/ RLeq(cam.object_distance, cam.far_depth)
            \/ REq(cam.far_depth, RInt(Sentinel))

(***************************************************************************)
(* C7.  For a fixed height > 0 and two pitches p2 < p1, both below the     *)
(* -0.001 rad threshold and above -90 degrees (amended: the claim says     *)
(* p1 <= 0), center_view_distance after mount(p2, height) is strictly      *)
(* smaller than after mount(p1, height).  Stated on two successive calls.  *)
(***************************************************************************)
C7_SteeperIsNearer ==
  [][(/\ last.op = "mount" /\ last'.op = "mount"
      /\ last'.arg[2] = last.arg[2]
      /\ RSign(last.arg[2]) > 0
      /\ Steeper(last'.arg[1], last.arg[1])
      /\ BelowEpsilon(Dir(Radians(last.arg[1]))))
     => RLess(cam'.center_view_distance, cam.center_view_distance)]_vars

\* C7 as claimed: for every p2 < p1 <= 0
C7_AsClaimed ==
  [][(/\ last.op = "mount" /\ last'.op = "mount"
      /\ last'.arg[2] = last.arg[2]
      /\ RSign(last.arg[2]) > 0
      /\ Steeper(last'.arg[1], last.arg[1])
      /\ last.arg[1].b <= 0)
     => RLess(cam'.center_view_distance, cam.center_view_distance)]_vars

\* the camera stands mounted at a pitch below the threshold for which the
\* input set holds a steeper pitch: the next mount at that height compares
C7_Witness ==
  /\ last.op = "mount"
  /\ RSign(last.arg[2]) > 0
  /\ Downward(cam)
  /\ \E p2 \in Pitches : Steeper(p2, last.arg[1])

(***************************************************************************)
(* C8.  For a camera at a downward pitch and height > 0, whatever it is    *)
(* focused at, resolution_on_ground_per_10cm(g) is strictly positive for   *)
(* g > 0 and strictly decreasing in g.  Stated on successive calls.        *)
(***************************************************************************)
C8_ResolutionPositiveDecreasing ==
  [][(/\ last'.op = "resolution"
      /\ Downward(cam')
      /\ RSign(HeightOf(cam')) > 0
      /\ RSign(last'.arg[1]) > 0)
     => /\ ~IsNaN(last'.ret[1])
        /\ RSign(last'.ret[1]) > 0
        /\ (last.op = "resolution" /\ RLess(last.arg[1], last'.arg[1]))
             => RLess(last'.ret[1], last.ret[1])]_vars

(***************************************************************************)
(* C9.  With the camera at a pitch below the -0.001 rad threshold (above   *)
(* -90 degrees) and height > 0, as mount leaves it,                        *)
(* project([0, 0, center_view_distance, 1]) is the principal point         *)
(* (width_px / 2, height_px / 2).                                          *)
(***************************************************************************)
C9_CentreProjectsToPrincipalPoint ==
  (/\ last.op = "project"
   /\ last.arg[1] = Point(RInt(0), RInt(0), cam.center_view_distance, RInt(1))
   /\ Downward(cam)
   /\ RSign(HeightOf(cam)) > 0)
  => /\ last.err = "ok"
     /\ ~IsNaN(last.ret[1][1])
     /\ REq(last.ret[1][1], RDiv(cam.sensor.width_px, RInt(2)))
     /\ REq(last.ret[2][1], RDiv(cam.sensor.height_px, RInt(2)))

\* the centre of view of a downward camera at positive height was projected
C9_Witness ==
  /\ last.op = "project"
  /\ last.arg[1] = Point(RInt(0), RInt(0), cam.center_view_distance, RInt(1))
  /\ Downward(cam)
  /\ RSign(HeightOf(cam)) > 0
  /\ last.err = "ok"

(***************************************************************************)
(* C10.  After every mount(pitch, height) with height > 0 that returns,    *)
(* 0 <= near_view_limit <= center_view_distance <= far_view_limit.         *)
(***************************************************************************)
C10_ViewLimitsOrdered ==
  (last.op = "mount" /\ last.err = "ok" /\ RSign(last.arg[2]) > 0) =>
    /\ RSign(cam.near_view_limit) >= 0
    /\ RLeq(cam.near_view_limit, cam.center_view_distance)
    /\ RLeq(cam.center_view_distance, cam.far_view_limit)

====
